---- MODULE Spec2Model ----
(***************************************************************************)
(* Model of pkg/service/auth.go (AuthService.Check and the rendering of    *)
(* an AuthResult into the CheckResponse) and of the generic HTTP metadata  *)
(* evaluator (GenericHttp.Call, GenericHttp.buildRequestBody).             *)
(*                                                                         *)
(* A host such as "a:80:81" is modelled by the sequence of its ':'-free    *)
(* segments <<"a", "80", "81">>: strings.Contains(host, ":") is            *)
(* Len(host) > 1, strings.Split(host, ":")[0] is <<host[1]>> and           *)
(* h + ":" + p is Append(h, p).                                            *)
(***************************************************************************)
EXTENDS Integers, Sequences, FiniteSets, TLC

VARIABLES
    cache,         \* AuthService.Cache: host key -> *APIConfig (NilConfig = absent)
    pc,            \* position of the Check invocation in flight
    req,           \* the CheckRequest of the invocation in flight
    apiConfig,     \* local variable apiConfig of Check
    seen,          \* history: outcomes of the exact-then-port-stripped lookup
                   \* on every cache state that existed since the invocation
                   \* in flight started
    writes,        \* history: cache writes between the two reads (2 = two or more)
    snapshot,      \* history: the cache as the first read found it, while the
                   \* invocation resolves the host
    pipelineBuilt, \* history: NewAuthPipeline/Evaluate ran for this invocation
    result,        \* the AuthResult rendered (pipeline output or denial literal)
    headersBefore, \* history: visible header sequence of result before rendering
    response,      \* the *CheckResponse returned by Check
    evaluator,     \* the GenericHttp evaluator (receiver h) whose Call is in flight
    ctxDone,       \* the execution scope of the Call is cancelled or expired
    startedDone,   \* history: the scope was already done when Call started
    hpc,           \* position of the Call in flight
    outReq,        \* the *http.Request Call built
    sent,          \* the requests issued on the network
    received,      \* the *http.Response that came back
    ret            \* what Call returned: a value or a failure

checkVars == <<cache, pc, req, apiConfig, seen, writes, snapshot, pipelineBuilt, result,
               headersBefore, response>>

httpVars == <<evaluator, ctxDone, startedDone, hpc, outReq, sent, received, ret>>

vars == <<checkVars, httpVars>>

----------------------------------------------------------------------------
\* Bounds of the model

\* number of distinct APIConfig objects the control plane may register
NumConfigs == 2
\* longest AuthResult.Headers sequence a pipeline produces
MaxHeaders == 2
\* most static headers configured on a generic HTTP evaluator
MaxStaticHeaders == 2
\* most JSON tokens in a response body
MaxBody == 3

----------------------------------------------------------------------------
\* Constants of the program

X_EXT_AUTH_REASON_HEADER == "X-Ext-Auth-Reason"
RESPONSE_MESSAGE_INVALID_REQUEST == "Invalid request"
RESPONSE_MESSAGE_SERVICE_NOT_FOUND == "Service not found"

\* a nil *config.APIConfig
NilConfig == 0
Configs == 1..NumConfigs

\* rpc.Code values the handler may see; INTERNAL and UNAVAILABLE stand for the
\* codes statusCodeMapping has no entry for
Codes == {"OK", "FAILED_PRECONDITION", "NOT_FOUND", "UNAUTHENTICATED",
          "PERMISSION_DENIED", "INTERNAL", "UNAVAILABLE"}

statusCodeMapping_swapped ==
    [c \in {"FAILED_PRECONDITION", "NOT_FOUND", "UNAUTHENTICATED", "PERMISSION_DENIED"} |->
        CASE c = "FAILED_PRECONDITION" -> 400
          [] c = "NOT_FOUND"           -> 404
          [] c = "UNAUTHENTICATED"     -> 403
          [] c = "PERMISSION_DENIED"   -> 401]

\* the Go map literal statusCodeMapping
statusCodeMapping ==
    [c \in {"FAILED_PRECONDITION", "NOT_FOUND", "UNAUTHENTICATED", "PERMISSION_DENIED"} |->
        CASE c = "FAILED_PRECONDITION" -> 400
          [] c = "NOT_FOUND"           -> 404
          [] c = "UNAUTHENTICATED"     -> 401
          [] c = "PERMISSION_DENIED"   -> 403]

\* Indexing a Go map with a missing key yields the zero value of the element
\* type; for envoy_type.StatusCode that is StatusCode_Empty (0).
StatusCodeOf(code) ==
    IF code \in DOMAIN statusCodeMapping THEN statusCodeMapping[code] ELSE 0

----------------------------------------------------------------------------
\* Hosts and the cache

\* keys the configuration collaborator may register
Keys == {<<"a">>, <<"a", "80">>}
\* hosts requests arrive for
Hosts == Keys \cup {<<"a", "80", "81">>, <<"c">>, <<"c", "80">>}
\* port suffixes
Ports == {"80", "81"}

\* cache.Cache.Get: one atomic read of one key
Get(c, key) == IF key \in DOMAIN c THEN c[key] ELSE NilConfig

\* strings.Contains(host, ":")
ContainsColon(host) == Len(host) > 1

splitHost0_last(host) == <<host[Len(host)]>>

\* strings.Split(host, ":")[0]
splitHost0(host) == <<host[1]>>

\* the retry of Check: taken when the first read missed and the host has a ':'
NeedsRetry(cfg, host) == cfg = NilConfig /\ ContainsColon(host)

\* The two reads of Check done on one cache state
ResolveHost(c, host) ==
    LET exact == Get(c, host)
    IN  IF NeedsRetry(exact, host) THEN Get(c, splitHost0(host)) ELSE exact

\* The lookup as section 4.1 of the specification words it, on one cache
\* state: exact match first; on a miss, if the host contains a ':', the
\* substring before the first ':'
ExactThenStripped(c, host) ==
    IF host \in DOMAIN c /\ c[host] # NilConfig THEN c[host]
    ELSE IF Len(host) > 1 /\ <<Head(host)>> \in DOMAIN c THEN c[<<Head(host)>>]
    ELSE NilConfig

----------------------------------------------------------------------------
\* AuthResult and its rendering

\* header maps: map[string]string with keys and values from small sets
HeaderKeys == {"X-A", X_EXT_AUTH_REASON_HEADER}
HeaderValues == {"v1", "v2"}
HeaderMaps == UNION {[D -> HeaderValues] : D \in SUBSET HeaderKeys}

Messages == {"denied", RESPONSE_MESSAGE_SERVICE_NOT_FOUND}

RECURSIVE SeqsUpTo(_, _)
SeqsUpTo(S, n) ==
    IF n = 0 THEN {<<>>}
    ELSE LET shorter == SeqsUpTo(S, n - 1)
         IN  shorter \cup {Append(s, x) : s \in {t \in shorter : Len(t) = n - 1}, x \in S}

\* A Go slice []map[string]string: backing array arr (cap = Len(arr)), length
\* len; arr = <<>> with isNil is the nil slice.  Elements of arr beyond len
\* are spare capacity.
NilSlice == [isNil |-> TRUE, arr |-> <<>>, len |-> 0]
Visible(s) == SubSeq(s.arr, 1, s.len)

appendSlice_overwrite(s, x) ==
    IF s.len > 0
    THEN [isNil |-> FALSE, arr |-> [s.arr EXCEPT ![s.len] = x], len |-> s.len]
    ELSE [isNil |-> FALSE, arr |-> <<x>>, len |-> 1]

\* append(s, x): in place when there is spare capacity, else on a copy
appendSlice(s, x) ==
    IF s.len < Len(s.arr)
    THEN [isNil |-> FALSE, arr |-> [s.arr EXCEPT ![s.len + 1] = x], len |-> s.len + 1]
    ELSE [isNil |-> FALSE, arr |-> Append(Visible(s), x), len |-> s.len + 1]

\* the orders in which `for key, value := range headerMap` may visit a map
RangeOrders(m) ==
    {o \in [1..Cardinality(DOMAIN m) -> DOMAIN m] :
        \A i, j \in DOMAIN o : i # j => o[i] # o[j]}

\* buildResponseHeaders: the set of header lists the two nested loops can
\* produce (outer loop in slice order, inner loop in Go's map order)
RECURSIVE buildResponseHeaders(_)
buildResponseHeaders(headers) ==
    IF headers = <<>> THEN {<<>>}
    ELSE LET n == Len(headers)
             m == headers[n]
         IN  {front \o [i \in 1..Cardinality(DOMAIN m) |-> <<o[i], m[o[i]]>>] :
                 front \in buildResponseHeaders(SubSeq(headers, 1, n - 1)),
                 o \in RangeOrders(m)}

\* buildResponseHeadersWithReason: the slice after the append (it may share
\* extraHeaders' backing array)
headersWithReason(authReason, extraHeaders) ==
    LET headers == IF ~extraHeaders.isNil THEN extraHeaders
                   ELSE [isNil |-> FALSE, arr |-> <<>>, len |-> 0]
    IN  appendSlice(headers, [k \in {X_EXT_AUTH_REASON_HEADER} |-> authReason])

buildResponseHeadersWithReason_noReason(authReason, extraHeaders) ==
    buildResponseHeaders(Visible(extraHeaders))

\* buildResponseHeadersWithReason: the header lists it may return
buildResponseHeadersWithReason(authReason, extraHeaders) ==
    buildResponseHeaders(Visible(headersWithReason(authReason, extraHeaders)))

NoResponse == [kind |-> "none"]

\* AuthService.deniedResponse: the responses it may build
deniedResponse(authResult) ==
    {[kind       |-> "denied",
      statusCode |-> authResult.code,
      httpStatus |-> StatusCodeOf(authResult.code),
      headers    |-> hs] :
        hs \in buildResponseHeadersWithReason(authResult.message, authResult.headers)}

\* AuthService.successResponse: dynamicMetadata is nil when structpb.NewStruct
\* rejects the metadata (the error is only logged)
successResponse(authResult) ==
    {[kind            |-> "ok",
      statusCode      |-> "OK",
      headers         |-> hs,
      dynamicMetadata |-> IF authResult.metadataValid THEN "struct" ELSE "nil"] :
        hs \in buildResponseHeaders(Visible(authResult.headers))}

\* the caller's AuthResult after deniedResponse ran on its copy: the copy
\* shares the backing array of Headers, the length is the caller's own
AfterRender(authResult) ==
    LET appended == headersWithReason(authResult.message, authResult.headers)
    IN  IF Len(appended.arr) = Len(authResult.headers.arr)
        THEN [authResult EXCEPT !.headers.arr = appended.arr]
        ELSE authResult

\* AuthResult.Success()
Success(authResult) == authResult.code = "OK"

MakeResult(code, message, headers, valid) ==
    [code |-> code, message |-> message, headers |-> headers, metadataValid |-> valid]

\* slices whose visible elements are drawn from hm, of every length up to n,
\* without spare capacity or with one zeroed element of spare capacity
SlicesOver(hm, n) ==
    {NilSlice} \cup
    {[isNil |-> FALSE, arr |-> IF spare THEN Append(v, <<>>) ELSE v, len |-> Len(v)] :
        v \in SeqsUpTo(hm, n), spare \in BOOLEAN}

----------------------------------------------------------------------------
\* AuthService.Check

NoHost == <<>>
NoRequest == [marshalErr |-> FALSE, hasHttp |-> FALSE, host |-> NoHost]
NoResult == MakeResult("OK", "", NilSlice, FALSE)
NoSnapshot == <<>>

\* CheckRequests: json.MarshalIndent may fail (a NaN number in the metadata
\* context); Attributes, Attributes.Request and Attributes.Request.Http are
\* pointers a request may leave nil
Requests ==
    [marshalErr : BOOLEAN, hasHttp : {TRUE}, host : Hosts] \cup
    [marshalErr : BOOLEAN, hasHttp : {FALSE}, host : {NoHost}]

\* header maps and results of the pipelines the handler drives
PipelineHeaderMaps == {[k \in {"X-A"} |-> "v1"]}
PipelineResults ==
    {MakeResult(c, "denied", hs, TRUE) :
        c \in Codes, hs \in SlicesOver(PipelineHeaderMaps, 1)} \cup
    {MakeResult("OK", "denied", NilSlice, FALSE)}

\* pipeline.Evaluate(): some AuthResult
Evaluate == PipelineResults

Render(authResult, resp) ==
    /\ headersBefore' = Visible(authResult.headers)
    /\ result' = AfterRender(authResult)
    /\ response' = resp

CheckInit ==
    /\ cache \in [Keys -> Configs \cup {NilConfig}]
    /\ pc = "idle"
    /\ req = NoRequest
    /\ apiConfig = NilConfig
    /\ seen = {}
    /\ writes = 0
    /\ snapshot = NoSnapshot
    /\ pipelineBuilt = FALSE
    /\ result = NoResult
    /\ headersBefore = <<>>
    /\ response = NoResponse

\* Check, lines 47-56: serialize the request, read the host, first cache read
CheckBegin(r) ==
    /\ pc = "idle"
    /\ req' = r
    /\ pipelineBuilt' = FALSE
    /\ writes' = 0
    /\ IF r.marshalErr
       THEN LET denial == MakeResult("FAILED_PRECONDITION",
                                     RESPONSE_MESSAGE_INVALID_REQUEST, NilSlice, FALSE)
            IN  /\ \E resp \in deniedResponse(denial) : Render(denial, resp)
                /\ pc' = "done"
                /\ apiConfig' = NilConfig
                /\ seen' = IF r.hasHttp THEN {ExactThenStripped(cache, r.host)} ELSE {}
                /\ snapshot' = NoSnapshot
       ELSE IF ~r.hasHttp
       THEN \* req.Attributes.Request.Http.Host dereferences a nil pointer
            /\ pc' = "panic"
            /\ apiConfig' = NilConfig
            /\ seen' = {}
            /\ snapshot' = NoSnapshot
            /\ result' = NoResult
            /\ headersBefore' = <<>>
            /\ response' = NoResponse
       ELSE /\ apiConfig' = Get(cache, r.host)
            /\ pc' = "read1"
            /\ seen' = {ExactThenStripped(cache, r.host)}
            /\ snapshot' = cache
            /\ result' = NoResult
            /\ headersBefore' = <<>>
            /\ response' = NoResponse
    /\ UNCHANGED <<cache, httpVars>>

\* Check, lines 58-61: the retry with the port part removed
CheckRetry ==
    /\ pc = "read1"
    /\ apiConfig' = IF NeedsRetry(apiConfig, req.host)
                    THEN Get(cache, splitHost0(req.host))
                    ELSE apiConfig
    /\ pc' = "resolved"
    /\ UNCHANGED <<cache, req, seen, writes, snapshot, pipelineBuilt, result,
                   headersBefore, response, httpVars>>

\* Check, lines 63-76: deny a miss, else run the pipeline and render its result
CheckFinish ==
    /\ pc = "resolved"
    /\ pc' = "done"
    /\ snapshot' = NoSnapshot
    /\ IF apiConfig = NilConfig
       THEN LET denial == MakeResult("NOT_FOUND",
                                     RESPONSE_MESSAGE_SERVICE_NOT_FOUND, NilSlice, FALSE)
            IN  /\ \E resp \in deniedResponse(denial) : Render(denial, resp)
                /\ UNCHANGED pipelineBuilt
       ELSE /\ pipelineBuilt' = TRUE
            /\ \E res \in Evaluate :
                 IF Success(res)
                 THEN \E resp \in successResponse(res) :
                        /\ headersBefore' = Visible(res.headers)
                        /\ result' = res
                        /\ response' = resp
                 ELSE \E resp \in deniedResponse(res) : Render(res, resp)
    /\ UNCHANGED <<cache, req, apiConfig, seen, writes, httpVars>>

\* the response is handed to the gRPC server; the next request may come in
CheckReturn ==
    /\ pc = "done"
    /\ pc' = "idle"
    /\ req' = NoRequest
    /\ apiConfig' = NilConfig
    /\ seen' = {}
    /\ writes' = 0
    /\ pipelineBuilt' = FALSE
    /\ snapshot' = NoSnapshot
    /\ result' = NoResult
    /\ headersBefore' = <<>>
    /\ response' = NoResponse
    /\ UNCHANGED <<cache, httpVars>>

InFlight == pc \in {"read1", "resolved"}

\* a write of the collaborator; one that falls between the return of a Check
\* and the next request is taken after the return (the two commute)
Written(c) ==
    /\ pc # "done"
    /\ cache' = c
    /\ seen' = IF InFlight THEN seen \cup {ExactThenStripped(c, req.host)} ELSE seen
    /\ writes' = IF pc = "read1" /\ writes < 2 THEN writes + 1 ELSE writes
    /\ UNCHANGED <<pc, req, apiConfig, snapshot, pipelineBuilt, result, headersBefore,
                   response, httpVars>>

\* cache.Cache.Set by the configuration collaborator: one atomic write
CacheSet(key, cfg) ==
    /\ cache[key] # cfg
    /\ Written([cache EXCEPT ![key] = cfg])

\* cache.Cache.Delete by the configuration collaborator: one atomic write
CacheDelete(key) ==
    /\ cache[key] # NilConfig
    /\ Written([cache EXCEPT ![key] = NilConfig])

----------------------------------------------------------------------------
\* GenericHttp (package metadata)

\* textproto.CanonicalMIMEHeaderKey, as http.Header.Set applies it
CanonicalKey(name) == IF name = "content-type" THEN "Content-Type" ELSE name

\* http.Header.Set on a header with single values
HeaderSet(hdr, name, value) ==
    [k \in DOMAIN hdr \cup {CanonicalKey(name)} |->
        IF k = CanonicalKey(name) THEN value ELSE hdr[k]]

NoHeader == [k \in {} |-> ""]

StaticHeaderNames == {"Content-Type", "content-type", "X-Foo"}
StaticHeaders == [name : StaticHeaderNames, value : {"application/xml"}]

Methods == {"GET", "POST", "PUT"}
ContentTypes == {"application/x-www-form-urlencoded", "application/json", "text/xml"}
\* where the credentials go (auth.AuthCredentials), "none" when h.AuthCredentials == nil
CredentialSources == {"none", "authorization_header", "custom_header", "query"}

MakeEvaluator(method, contentType, hasBody, encodes, creds, endpointOK, headers) ==
    [Method |-> method, ContentType |-> contentType, hasBody |-> hasBody,
     encodes |-> encodes, creds |-> creds, endpointOK |-> endpointOK,
     Headers |-> headers]

\* the evaluators a configuration can describe: Body set or nil, values that
\* json.StringifyJSON / json.Marshal can or cannot encode, an endpoint that
\* parses as a URL or not
Evaluators ==
    {MakeEvaluator(m, ct, b, e, c, u, hs) :
        m \in Methods, ct \in ContentTypes, b \in BOOLEAN, e \in BOOLEAN,
        c \in CredentialSources, u \in BOOLEAN,
        hs \in SeqsUpTo(StaticHeaders, MaxStaticHeaders)}

PlainEvaluators ==
    {MakeEvaluator(m, "application/json", FALSE, TRUE, "none", TRUE, <<>>) :
        m \in {"GET", "POST"}}

NoEvaluator == MakeEvaluator("", "", FALSE, FALSE, "none", FALSE, <<>>)

Failure(msg) == [kind |-> "error", value |-> msg]
Value(v) == [kind |-> "value", value |-> v]
NoReturn == [kind |-> "none", value |-> ""]
NoBody == "nil"
NoHttpRequest == [method |-> "", body |-> NoBody, header |-> NoHeader]

\* context.CheckContext: an error iff the scope is done
CheckContext(done) == IF done THEN Failure("Context aborted") ELSE Value("ok")

\* GenericHttp.buildRequestBody
buildRequestBody(ev) ==
    IF ev.hasBody
    THEN IF ~ev.encodes THEN Failure("failed to encode http request")
         ELSE Value("body-template")
    ELSE CASE ev.ContentType = "application/x-www-form-urlencoded" ->
                IF ~ev.encodes THEN Failure("failed to encode http request")
                ELSE Value("form-encoded-parameters")
           [] ev.ContentType = "application/json" ->
                IF ~ev.encodes THEN Failure("json: unsupported value")
                ELSE Value("json-encoded-parameters")
           [] OTHER -> Failure("unsupported content-type")

methodSwitch_defaultGet(ev) ==
    IF ev.Method = "POST"
    THEN LET body == buildRequestBody(ev)
         IN  [err |-> IF body.kind = "error" THEN body ELSE Value("ok"),
              contentType |-> ev.ContentType,
              requestBody |-> IF body.kind = "error" THEN NoBody ELSE body.value]
    ELSE [err |-> Value("ok"), contentType |-> "text/plain", requestBody |-> NoBody]

\* Call, lines 185-199: content type and body by method
methodSwitch(ev) ==
    CASE ev.Method = "GET" ->
            [err |-> Value("ok"), contentType |-> "text/plain", requestBody |-> NoBody]
      [] ev.Method = "POST" ->
            LET body == buildRequestBody(ev)
            IN  [err |-> IF body.kind = "error" THEN body ELSE Value("ok"),
                 contentType |-> ev.ContentType,
                 requestBody |-> IF body.kind = "error" THEN NoBody ELSE body.value]
      [] OTHER ->
            [err |-> Failure("unsupported method"), contentType |-> "", requestBody |-> NoBody]

\* http.NewRequestWithContext: a request with the method and body given
NewRequestWithContext(ev, method, requestBody) ==
    IF ~ev.endpointOK THEN Failure("parse endpoint")
    ELSE Value([method |-> method, body |-> requestBody, header |-> NoHeader])

\* auth.AuthCredentials.BuildRequestWithCredentials: the plain request with
\* the shared secret attached where the credentials are configured to go
BuildRequestWithCredentials(ev, method, requestBody) ==
    LET plain == NewRequestWithContext(ev, method, requestBody)
    IN  IF plain.kind = "error" THEN plain
        ELSE CASE ev.creds = "authorization_header" ->
                    Value([plain.value EXCEPT
                             !.header = HeaderSet(NoHeader, "Authorization", "Bearer secret")])
               [] ev.creds = "custom_header" ->
                    Value([plain.value EXCEPT
                             !.header = HeaderSet(NoHeader, "content-type", "secret")])
               [] OTHER -> plain

applyHeaders_reversed(request, headers, contentType) ==
    LET setNth[i \in 0..Len(headers)] ==
            IF i = 0 THEN HeaderSet(request.header, "Content-Type", contentType)
            ELSE HeaderSet(setNth[i - 1], headers[i].name, headers[i].value)
    IN  [request EXCEPT !.header = setNth[Len(headers)]]

\* Call, lines 212-216: the static headers in order, then Content-Type
applyHeaders(request, headers, contentType) ==
    LET setNth[i \in 0..Len(headers)] ==
            IF i = 0 THEN request.header
            ELSE HeaderSet(setNth[i - 1], headers[i].name, headers[i].value)
    IN  [request EXCEPT !.header = HeaderSet(setNth[Len(headers)], "Content-Type", contentType)]

\* response bodies: sequences of JSON tokens; "{x}" and "{y}" are JSON
\* objects, "junk" is text no JSON value starts with, "}" is a stray
\* closing delimiter
ObjectTokens == {"{x}", "{y}"}
Tokens == ObjectTokens \cup {"junk", "}"}
ResponseContentTypes == {"application/json; charset=utf-8", "text/plain"}
Responses == [contentType : ResponseContentTypes, body : SeqsUpTo(Tokens, MaxBody)]
PlainResponses == [contentType : ResponseContentTypes, body : SeqsUpTo({"{x}"}, 1)]
NoHttpResponse == [contentType |-> "", body |-> <<>>]

\* strings.Contains(strings.Join(resp.Header["Content-Type"], ";"), "application/json")
IsJSON(contentType) == contentType = "application/json; charset=utf-8"

\* json.Decoder.More: another token follows and it is neither ']' nor '}'
More(rest) == rest # <<>> /\ Head(rest) # "}"

\* Call, lines 244-253: decode objects until More() says there is none left
RECURSIVE decodeLoop(_, _)
decodeLoop(body, elements) ==
    IF body = <<>> THEN Failure("EOF")
    ELSE IF Head(body) \notin ObjectTokens THEN Failure("invalid character")
    ELSE LET decoded == Append(elements, Head(body))
         IN  IF ~More(Tail(body)) THEN Value(decoded)
             ELSE decodeLoop(Tail(body), decoded)

\* Call, lines 238-270: the value Call returns for a response
parseResponse(resp) ==
    IF IsJSON(resp.contentType)
    THEN LET elements == decodeLoop(resp.body, <<>>)
         IN  IF elements.kind = "error" THEN elements
             ELSE IF Len(elements.value) > 1
                  THEN Value([shape |-> "many", json |-> elements.value])
             ELSE IF Len(elements.value) = 1
                  THEN Value([shape |-> "one", json |-> <<elements.value[1]>>])
             ELSE Value([shape |-> "nil", json |-> <<>>])
    ELSE Value([shape |-> "text", json |-> resp.body])

contextGate_ignored(done) == Value("ok")

\* Call, lines 175-177: the gate in front of everything else
contextGate(done) == CheckContext(done)

HttpInit ==
    /\ evaluator = NoEvaluator
    /\ ctxDone \in BOOLEAN
    /\ startedDone = FALSE
    /\ hpc = "idle"
    /\ outReq = NoHttpRequest
    /\ sent = <<>>
    /\ received = NoHttpResponse
    /\ ret = NoReturn

Return(r) ==
    /\ ret' = r
    /\ hpc' = "returned"

\* Call, lines 174-230: gate on the scope, build the request, set the headers
CallBuild(ev) ==
    /\ hpc = "idle"
    /\ evaluator' = ev
    /\ startedDone' = ctxDone
    /\ UNCHANGED <<ctxDone, sent, received, checkVars>>
    /\ LET gate == contextGate(ctxDone)
           sw == methodSwitch(ev)
           built == IF ev.creds # "none"
                    THEN BuildRequestWithCredentials(ev, ev.Method, sw.requestBody)
                    ELSE NewRequestWithContext(ev, ev.Method, sw.requestBody)
       IN  IF gate.kind = "error" THEN Return(gate) /\ UNCHANGED outReq
           ELSE IF sw.err.kind = "error" THEN Return(sw.err) /\ UNCHANGED outReq
           ELSE IF built.kind = "error" THEN Return(built) /\ UNCHANGED outReq
           ELSE /\ outReq' = applyHeaders(built.value, ev.Headers, sw.contentType)
                /\ hpc' = "built"
                /\ UNCHANGED ret

\* http.DefaultClient.Do, line 232: a request whose context is done is not
\* sent; otherwise it goes out on the network
CallDo ==
    /\ hpc = "built"
    /\ UNCHANGED <<evaluator, ctxDone, startedDone, outReq, received, checkVars>>
    /\ IF ctxDone
       THEN Return(Failure("context canceled")) /\ UNCHANGED sent
       ELSE /\ sent' = Append(sent, outReq)
            /\ hpc' = "awaiting"
            /\ UNCHANGED ret

\* line 232 returns an error: transport failure, or the scope ended meanwhile
CallDoFails ==
    /\ hpc = "awaiting"
    /\ Return(Failure("transport"))
    /\ UNCHANGED <<evaluator, ctxDone, startedDone, outReq, sent, received, checkVars>>

\* lines 236-270: the response arrived and is parsed
CallReceive(resp) ==
    /\ hpc = "awaiting"
    /\ received' = resp
    /\ Return(parseResponse(resp))
    /\ UNCHANGED <<evaluator, ctxDone, startedDone, outReq, sent, checkVars>>

\* the caller cancels the scope, or its deadline passes
CtxCancel ==
    /\ ~ctxDone
    /\ hpc # "returned"
    /\ ctxDone' = TRUE
    /\ UNCHANGED <<evaluator, startedDone, hpc, outReq, sent, received, ret, checkVars>>

----------------------------------------------------------------------------
\* Specifications

HttpIdle ==
    /\ evaluator = NoEvaluator
    /\ ctxDone = FALSE
    /\ startedDone = FALSE
    /\ hpc = "idle"
    /\ outReq = NoHttpRequest
    /\ sent = <<>>
    /\ received = NoHttpResponse
    /\ ret = NoReturn

CheckIdle ==
    /\ cache = [k \in Keys |-> NilConfig]
    /\ pc = "idle"
    /\ req = NoRequest
    /\ apiConfig = NilConfig
    /\ seen = {}
    /\ writes = 0
    /\ snapshot = NoSnapshot
    /\ pipelineBuilt = FALSE
    /\ result = NoResult
    /\ headersBefore = <<>>
    /\ response = NoResponse

\* The check handler, with the configuration collaborator writing the cache
Init == CheckInit /\ HttpIdle
Next ==
    \/ pc = "idle" /\ \E r \in Requests : CheckBegin(r)
    \/ CheckRetry
    \/ CheckFinish
    \/ CheckReturn
    \/ \E key \in Keys, cfg \in Configs : CacheSet(key, cfg)
    \/ \E key \in Keys : CacheDelete(key)
Spec == Init /\ [][Next]_vars

\* Rendering of the AuthResults a pipeline can produce
RenderResults ==
    {MakeResult(c, m, hs, TRUE) :
        c \in Codes, m \in Messages, hs \in SlicesOver(HeaderMaps, MaxHeaders)}

\* deniedResponse on a denial
RenderDenied(authResult) ==
    /\ pc = "idle"
    /\ ~Success(authResult)
    /\ pc' = "done"
    /\ \E resp \in deniedResponse(authResult) : Render(authResult, resp)
    /\ UNCHANGED <<cache, req, apiConfig, seen, writes, snapshot, pipelineBuilt,
                   httpVars>>

\* successResponse on a success
RenderSuccess(authResult) ==
    /\ pc = "idle"
    /\ Success(authResult)
    /\ pc' = "done"
    /\ \E resp \in successResponse(authResult) :
         /\ headersBefore' = Visible(authResult.headers)
         /\ result' = authResult
         /\ response' = resp
    /\ UNCHANGED <<cache, req, apiConfig, seen, writes, snapshot, pipelineBuilt,
                   httpVars>>

RenderInit == CheckIdle /\ HttpIdle
RenderNext ==
    \/ pc = "idle" /\ \E ar \in RenderResults : RenderDenied(ar)
    \/ pc = "idle" /\ \E ar \in RenderResults : RenderSuccess(ar)
SpecRender == RenderInit /\ [][RenderNext]_vars

\* Call of every evaluator a configuration can describe
HttpSpecInit == CheckIdle /\ HttpInit
HttpNext ==
    \/ hpc = "idle" /\ \E ev \in Evaluators : CallBuild(ev)
    \/ CallDo
    \/ CallDoFails
    \/ hpc = "awaiting" /\ \E resp \in PlainResponses : CallReceive(resp)
    \/ CtxCancel
SpecHttp == HttpSpecInit /\ [][HttpNext]_vars

\* Call of a plain evaluator against every response
ParseInit == CheckIdle /\ HttpInit
ParseNext ==
    \/ hpc = "idle" /\ \E ev \in PlainEvaluators : CallBuild(ev)
    \/ CallDo
    \/ CallDoFails
    \/ hpc = "awaiting" /\ \E resp \in Responses : CallReceive(resp)
    \/ CtxCancel
SpecParse == ParseInit /\ [][ParseNext]_vars

----------------------------------------------------------------------------
\* Properties of the check handler (specification Spec)

\* the host resolution of the invocation has both reads behind it
Resolved == pc \in {"resolved", "done"} /\ req.hasHttp /\ ~req.marshalErr

\* the response the handler gives for a host miss
NotFoundResponse ==
    [kind       |-> "denied",
     statusCode |-> "NOT_FOUND",
     httpStatus |-> 404,
     headers    |-> << <<X_EXT_AUTH_REASON_HEADER, RESPONSE_MESSAGE_SERVICE_NOT_FOUND>> >>]

\* C1 as stated: on a cache that stays as it is during the resolution, for
\* every registered host hh and every port suffix p, Check resolves the
\* request host hh:p to the configuration it resolves hh to (the one
\* registered for hh), also when hh contains a ':' and when hh:p is a key.
C1_PortSuffixSameConfig ==
    (pc = "resolved" /\ writes = 0) =>
        \A hh \in Keys, p \in Ports :
            (Get(snapshot, hh) # NilConfig /\ req.host = Append(hh, p))
                => apiConfig = ResolveHost(snapshot, hh)

\* C1 amended: for every registered host hh and every port suffix p, Check
\* resolves hh:p to the configuration registered for hh:p itself when there
\* is one, and else to the configuration registered for the text of hh
\* before its first ':'; so hh:p resolves to the configuration of hh for
\* every registered hh that contains no ':' and whose hh:p is not a key.
C1_PortSuffixSameConfigPlainHost ==
    (pc = "resolved" /\ writes = 0) =>
        \A hh \in Keys, p \in Ports :
            (Get(snapshot, hh) # NilConfig /\ req.host = Append(hh, p)) =>
                /\ apiConfig = IF req.host \in Keys /\ snapshot[req.host] # NilConfig
                               THEN snapshot[req.host]
                               ELSE IF <<Head(hh)>> \in Keys THEN snapshot[<<Head(hh)>>]
                               ELSE NilConfig
                /\ (Len(hh) = 1 /\ (req.host \notin Keys \/ snapshot[req.host] = NilConfig))
                      => apiConfig = snapshot[hh]

C1_Witness ==
    /\ pc = "resolved"
    /\ writes = 0
    /\ req.host = <<"a", "80">>
    /\ Get(snapshot, <<"a">>) # NilConfig
    /\ Get(snapshot, <<"a", "80">>) = NilConfig
    /\ apiConfig = snapshot[<<"a">>]

\* C2 as stated: every request whose host has no registered configuration,
\* neither under the exact host nor port-stripped, on any cache state of the
\* invocation, is answered with the NOT_FOUND denial (code NOT_FOUND, status
\* 404, X-Ext-Auth-Reason: Service not found), and no pipeline is built.
C2_UnknownHostNotFound ==
    (pc = "done" /\ req.hasHttp /\ seen = {NilConfig})
        => response = NotFoundResponse /\ ~pipelineBuilt

\* C2 amended: the same for every such request that json.MarshalIndent
\* serializes without error.
C2_UnknownHostNotFoundSerialized ==
    (pc = "done" /\ req.hasHttp /\ ~req.marshalErr /\ seen = {NilConfig})
        => response = NotFoundResponse /\ ~pipelineBuilt

C2_Witness ==
    /\ pc = "done"
    /\ req.hasHttp
    /\ ~req.marshalErr
    /\ req.host = <<"a", "80", "81">>
    /\ seen = {NilConfig}
    /\ response = NotFoundResponse

\* C4: every invocation of Check returns a well-formed response (no panic),
\* and fails closed: an OK response only with a configuration resolved, the
\* pipeline evaluated and its result successful; a denied response carrying
\* the denial's code on every other path, FAILED_PRECONDITION / Invalid
\* request when the request cannot be serialized.
C4_AlwaysRespondsFailClosed ==
    /\ pc # "panic"
    /\ pc = "done" =>
        /\ response.kind \in {"ok", "denied"}
        /\ response.kind = "ok" =>
              apiConfig # NilConfig /\ pipelineBuilt /\ Success(result)
        /\ ~(apiConfig # NilConfig /\ pipelineBuilt /\ Success(result)) =>
              response.kind = "denied" /\ response.statusCode = result.code
        /\ req.marshalErr =>
              /\ response.kind = "denied"
              /\ response.statusCode = "FAILED_PRECONDITION"
              /\ response.headers =
                   << <<X_EXT_AUTH_REASON_HEADER, RESPONSE_MESSAGE_INVALID_REQUEST>> >>

\* C10: with writers updating the cache concurrently, the outcome
\* of the host resolution of a Check is what the exact-then-port-stripped
\* lookup returns on some single cache state that existed during the Check.
C10_ResolutionFromOneCacheState ==
    Resolved => apiConfig \in seen

\* with at most one cache write between the two reads, the outcome is that
\* of the lookup on one cache state of the invocation
ResolutionFromOneCacheStateOneWrite ==
    (Resolved /\ writes <= 1) => apiConfig \in seen

\* the two reads of Check on an unchanged cache give ResolveHost
SequentialResolution ==
    (pc = "resolved" /\ writes = 0) => apiConfig = ResolveHost(snapshot, req.host)

----------------------------------------------------------------------------
\* Properties of the rendering (specification SpecRender)

PairsOf(m) == {<<k, m[k]>> : k \in DOMAIN m}

\* number of name/value pairs in the first i entries of the header sequence hs
RECURSIVE PairsUpTo(_, _)
PairsUpTo(hs, i) ==
    IF i = 0 THEN 0 ELSE PairsUpTo(hs, i - 1) + Cardinality(DOMAIN hs[i])

\* C3: the denied response carries the HTTP status of the table for the four
\* mapped result codes (400, 404, 401, 403) and the defined default of the
\* status type, StatusCode_Empty (0), for every other result code.
C3_StatusMappingTotal ==
    response.kind = "denied" =>
        response.httpStatus =
            CASE response.statusCode = "FAILED_PRECONDITION" -> 400
              [] response.statusCode = "NOT_FOUND"           -> 404
              [] response.statusCode = "UNAUTHENTICATED"     -> 401
              [] response.statusCode = "PERMISSION_DENIED"   -> 403
              [] OTHER                                       -> 0

C3_Witness ==
    /\ response.kind = "denied"
    /\ response.statusCode = "INTERNAL"
    /\ response.httpStatus = 0

\* C5: the header list of a denied response is, entry by entry in the order
\* of the result's header sequence, every name/value pair of the entry (once
\* per entry, duplicates across entries kept), followed by exactly one
\* X-Ext-Auth-Reason header with the result's message; the result's own
\* header sequence is what it was before the rendering.
C5_DeniedHeaders ==
    response.kind = "denied" =>
        LET n == Len(headersBefore)
            total == PairsUpTo(headersBefore, n)
            out == response.headers
        IN  /\ Len(out) = total + 1
            /\ out[total + 1] = <<X_EXT_AUTH_REASON_HEADER, result.message>>
            /\ \A i \in 1..n :
                 {out[j] : j \in (PairsUpTo(headersBefore, i - 1) + 1)..PairsUpTo(headersBefore, i)}
                    = PairsOf(headersBefore[i])
            /\ Visible(result.headers) = headersBefore

\* two equal entries of two headers each, rendered through a slice with spare
\* capacity, which the append of the reason header filled
C5_Witness ==
    /\ response.kind = "denied"
    /\ Len(headersBefore) = 2
    /\ headersBefore[1] = headersBefore[2]
    /\ Cardinality(DOMAIN headersBefore[1]) = 2
    /\ Len(response.headers) = 5
    /\ Len(result.headers.arr) = 3
    /\ result.headers.arr[3] = [k \in {X_EXT_AUTH_REASON_HEADER} |-> result.message]

\* a denial without headers renders to the reason header alone
C5_NoHeadersCase ==
    (response.kind = "denied" /\ headersBefore = <<>>)
        => response.headers = << <<X_EXT_AUTH_REASON_HEADER, result.message>> >>

----------------------------------------------------------------------------
\* Properties of the generic HTTP evaluator (specifications SpecHttp, SpecParse)

AllObjects(body) == \A i \in 1..Len(body) : body[i] \in ObjectTokens

\* C6: for a response with a JSON content type, Call returns by the number n
\* of concatenated JSON objects of the body: the absent value without failure
\* for n = 0, the object for n = 1, the sequence of all objects in body order
\* for n > 1; a body that is no sequence of JSON objects is a failure.
C6_JsonResponseByCount ==
    (hpc = "returned" /\ received # NoHttpResponse /\ IsJSON(received.contentType)) =>
        IF AllObjects(received.body)
        THEN CASE Len(received.body) = 0 ->
                    ret = Value([shape |-> "nil", json |-> <<>>])
               [] Len(received.body) = 1 ->
                    ret = Value([shape |-> "one", json |-> received.body])
               [] OTHER ->
                    ret = Value([shape |-> "many", json |-> received.body])
        ELSE ret.kind = "error"

GetRequestOK(request) ==
    /\ request.body = NoBody
    /\ "Content-Type" \in DOMAIN request.header
    /\ request.header["Content-Type"] = "text/plain"
    /\ "content-type" \notin DOMAIN request.header

\* C7: whatever the evaluator's content type, body template, credentials and
\* static headers are, the request Call builds and sends for method GET has
\* no body and the Content-Type text/plain.
C7_GetIsBodilessTextPlain ==
    /\ (hpc \in {"built", "awaiting"} /\ evaluator.Method = "GET") => GetRequestOK(outReq)
    /\ \A i \in 1..Len(sent) : sent[i].method = "GET" => GetRequestOK(sent[i])

C7_Witness ==
    /\ Len(sent) = 1
    /\ sent[1].method = "GET"
    /\ evaluator.hasBody
    /\ evaluator.ContentType = "application/json"
    /\ evaluator.creds = "custom_header"
    /\ Len(evaluator.Headers) = 2
    /\ evaluator.Headers[1].name = "content-type"
    /\ evaluator.Headers[2].name = "Content-Type"
    /\ GetRequestOK(sent[1])

\* C8: a Call whose scope is already cancelled or expired when it starts
\* returns the failure of the scope check, whatever the configuration, and
\* issues no request.
C8_DoneScopeFailsBeforeCall ==
    startedDone =>
        /\ hpc = "returned"
        /\ ret = CheckContext(TRUE)
        /\ ret.kind = "error"
        /\ outReq = NoHttpRequest
        /\ sent = <<>>

C8_Witness ==
    /\ startedDone
    /\ hpc = "returned"
    /\ ret.kind = "error"
    /\ evaluator.Method = "GET"
    /\ evaluator.endpointOK
    /\ sent = <<>>

Unsupported(ev) ==
    \/ ev.Method \notin {"GET", "POST"}
    \/ /\ ev.Method = "POST"
       /\ ~ev.hasBody
       /\ ev.ContentType \notin {"application/x-www-form-urlencoded", "application/json"}

\* C9: Call of an evaluator with a method other than GET and POST, or with
\* method POST, no body template and a content type other than
\* application/x-www-form-urlencoded and application/json, returns a failure,
\* never a value, and neither builds nor issues a request.
C9_UnsupportedConfigFails ==
    (hpc # "idle" /\ Unsupported(evaluator)) =>
        /\ hpc = "returned"
        /\ ret.kind = "error"
        /\ outReq = NoHttpRequest
        /\ sent = <<>>

C9_Witness ==
    /\ hpc = "returned"
    /\ ~startedDone
    /\ evaluator.Method = "POST"
    /\ ~evaluator.hasBody
    /\ evaluator.ContentType = "text/xml"
    /\ evaluator.encodes
    /\ evaluator.endpointOK
    /\ ret = Failure("unsupported content-type")
    /\ sent = <<>>

====
